---- MODULE Spec2Model ----
(***************************************************************************)
(* zaqar (src/main.go): a log scanner.  main starts one startPipeline      *)
(* goroutine per configured log; each pipeline starts one startMatcher     *)
(* goroutine per configured matcher, streams the file's lines to every     *)
(* matcher over a channel of capacity 1, closes the channels, waits for    *)
(* the matchers and asks the shared collector to send a report.            *)
(*                                                                         *)
(* A string is a sequence of one-character strings.  Slice and channel     *)
(* positions are 1-based here (Go's are 0-based).                          *)
(***************************************************************************)
EXTENDS Integers, Sequences, FiniteSets, TLC

\* Bounds of the explored runs.
MaxMatchers == 2    \* matchers in the configuration, over all logs
MaxLines == 2       \* lines read from the log files, over all logs
MaxLoad == 6        \* logs + matchers + lines of a run

\* Program constant: capacity of a matcher's input channel (main.go:216).
QueueCap == 1

\* The names a configuration may give its logs: it has a log for each of
\* the first n names, n from 0 to MaxSources.
Names == <<"a", "b">>
MaxSources == Len(Names)
LogNames(n) == {Names[k] : k \in 1..n}

\* The (flavour, criteria) tuples a configuration may list: a regexp, a
\* substring, a flavour startMatcher does not know, a regexp that does not
\* compile.
SpecList ==
    << <<"regexp", <<"e">>>>, <<"substring", <<"e", "x">>>>,
       <<"glob", <<"e">>>>, <<"regexp", <<"(">>>> >>
MatcherSpecs == {SpecList[k] : k \in 1..Len(SpecList)}
Rank(m) == CHOOSE k \in 1..Len(SpecList) : SpecList[k] = m

\* The lines a log file may hold.
LineSet == { <<"e">>, <<"x">> }

SeqsUpTo(S, n) == UNION {[1..k -> S] : k \in 0..n}

\* ---------------------------------------------------------------------
\* Pure functions
\* ---------------------------------------------------------------------

\* strings.Contains(s, substr)
Contains(s, substr) ==
    \E k \in 0..(Len(s) - Len(substr)) : SubSeq(s, k + 1, k + Len(substr)) = substr

\* regexp.MustCompile succeeds: the patterns of MatcherSpecs are literals,
\* except "(" which has a missing closing parenthesis.
Compiles(criteria) == \A k \in 1..Len(criteria) : criteria[k] \notin {"(", ")"}

\* regexpMatcher.Match: FindStringIndex of a literal pattern finds an
\* occurrence of the pattern anywhere in the text.
RegexpMatch(criteria, text) == Contains(text, criteria)

\* substringMatcher.Match: strings.Contains(m.criteria, text).
SubstringMatch(criteria, text) == Contains(criteria, text)

\* The flavours of the switch in startMatcher.
Known(flavour) == flavour \in {"regexp", "substring"}

\* matcher.Match through the interface, for a matcher built from spec m.
Match(m, text) ==
    IF m[1] = "regexp" THEN RegexpMatch(m[2], text)
    ELSE IF m[1] = "substring" THEN SubstringMatch(m[2], text)
    ELSE FALSE

\* strings.Join(list, sep)
RECURSIVE Join(_, _)
Join(list, sep) ==
    IF list = <<>> THEN <<>>
    ELSE IF Len(list) = 1 THEN list[1]
    ELSE list[1] \o sep \o Join(Tail(list), sep)

\* ---------------------------------------------------------------------
\* State
\* ---------------------------------------------------------------------
VARIABLES
    conf,       \* conf[name]: logc.Matchers of log name (conf.Logs)
    proc,       \* the process: "running", "exited", or how it was ended
    fault,      \* the log whose goroutine ended the process, or "" if none
    mainpc,     \* main: "start", "wait"
    received,   \* main: values received from done
    done,       \* number of values buffered in the done channel
    pc,         \* pc[name]: position of startPipeline(name)
    fileOpen,   \* fileOpen[name]: the file handle is open
    file,       \* file[name]: the lines the scanner has returned so far
    pending,    \* pending[name]: queues the running range loop has yet to visit
    target,     \* target[name]: queue the pipeline is blocked sending to, or 0
    queue,      \* queue[name][i]: buffered lines of queues[i]
    closed,     \* closed[name][i]: queues[i] is closed
    wg,         \* wg[name]: the WaitGroup counter
    wpc,        \* wpc[name][i]: position of startMatcher for matcher i
    wline,      \* wline[name][i]: the line matcher i is adding
    wold,       \* wold[name][i]: c.errors[name] as matcher i's Add read it
    mu,         \* c.mu: <<>> when free, else <<name, i>>, the matcher goroutine holding it
    errors,     \* c.errors
    adds,       \* adds[name]: calls of Add(name, _) that returned (history)
    sent,       \* sent[name]: the messages handed to mg.Send, with the result
                \* of the call ("open" until it returns)
    \* History of the run (read by no action's guard):
    handed,     \* handed[name][i]: the lines sent on queues[i], in order
    taken,      \* taken[name][i]: number of lines matcher i has received
    closes,     \* closes[name][i]: number of times queues[i] was closed
    mine,       \* mine[name][i]: the lines matcher i has passed to Add, in order
    nvisit,     \* nvisit[name]: iterations the running range loop has started
    order,      \* order[name]: the queues in the order the first range loop
                \*   over them took them, for the logs whose loops are recorded
    \* A caller of the collector's exported methods, with the slices laid out
    \* in memory:
    heap,       \* heap[a]: the backing array a, a sequence of capacity many strings
    hdr,        \* hdr[name]: the slice c.errors[name] as [arr, len]; arr = 0: no array
    ret,        \* the slice a call of Errors returned, as [name, arr, len], or <<>>
    added,      \* added[name]: the messages passed to Add(name, _), in order
    \* A call of substringMatcher.Match:
    mcrit,      \* the criteria of the matcher
    mtext,      \* the text passed to Match
    mres        \* <<>> before the call, <<result>> after

vars == <<conf, proc, fault, mainpc, received, done, pc, fileOpen, file, pending,
          target, queue, closed, wg, wpc, wline, wold, mu, errors, adds, sent,
          handed, taken, closes, mine, nvisit, order,
          heap, hdr, ret, added, mcrit, mtext, mres>>

mainVars == <<mainpc, received>>
pipeVars == <<pc, fileOpen, file, pending, target>>
chanVars == <<queue, closed>>
workVars == <<wpc, wline, wold>>
collVars == <<mu, errors, adds, sent>>
histVars == <<handed, taken, closes, mine, nvisit, order>>
apiVars == <<heap, hdr, ret, added>>
matchVars == <<mcrit, mtext, mres>>

Logs == DOMAIN conf
Idx(name) == 1..Len(conf[name])

Free == <<>>

TotalMatchers(c) == Cardinality({<<n, i>> \in (DOMAIN c) \X (1..MaxMatchers) : i <= Len(c[n])})
TotalLines == Cardinality({<<n, k>> \in Logs \X (1..MaxLines) : k <= Len(file[n])})

\* Matcher list s comes no later than the equally long list t, by the
\* places of their matchers in SpecList.
Before(s, t) ==
    \/ s = t
    \/ \E j \in 1..Len(s) :
          /\ \A k \in 1..(j - 1) : s[k] = t[k]
          /\ Rank(s[j]) < Rank(t[j])

\* Logs and matchers are interchangeable (nothing depends on a log's name
\* or on a matcher's position, and Go visits the queues in any order): of
\* the configurations that differ only by a permutation, the one with the
\* logs by decreasing number of matchers, logs with as many matchers by
\* their lists, and each log's matchers in the order of SpecList is
\* explored.
Canonical(c, n) ==
    /\ \A k \in 1..(n - 1) :
          \/ Len(c[Names[k]]) > Len(c[Names[k + 1]])
          \/ /\ Len(c[Names[k]]) = Len(c[Names[k + 1]])
             /\ Before(c[Names[k]], c[Names[k + 1]])
    /\ \A m \in DOMAIN c : \A k \in 1..(Len(c[m]) - 1) :
          Rank(c[m][k]) <= Rank(c[m][k + 1])

\* Size of the run so far.
Load == Cardinality(Logs) + TotalMatchers(conf) + TotalLines

\* collector.HasErrors without the locking: the map lookup's ok.
HasErrors(name) == name \in DOMAIN errors

\* collector.Errors without the locking: a missing key reads as the nil slice.
Errors(name) == IF name \in DOMAIN errors THEN errors[name] ELSE <<>>

\* No caller of the collector's methods: the map is empty, nothing returned.
ApiIdle ==
    /\ heap = <<>>
    /\ hdr = <<>>
    /\ ret = <<>>
    /\ added = <<>>

\* No call of Match outside the pipelines.
MatchIdle ==
    /\ mcrit = <<>>
    /\ mtext = <<>>
    /\ mres = <<>>

\* main.go:180-196: the program at the start of main, configuration c loaded.
Start(c) ==
    /\ conf = c
    /\ proc = "running"
    /\ fault = ""
    /\ mainpc = "start"
    /\ received = 0
    /\ done = 0
    /\ pc = [n \in Logs |-> "idle"]
    /\ fileOpen = [n \in Logs |-> FALSE]
    /\ file = [n \in Logs |-> <<>>]
    /\ pending = [n \in Logs |-> {}]
    /\ target = [n \in Logs |-> 0]
    /\ queue = [n \in Logs |-> [i \in Idx(n) |-> <<>>]]
    /\ closed = [n \in Logs |-> [i \in Idx(n) |-> FALSE]]
    /\ wg = [n \in Logs |-> 0]
    /\ wpc = [n \in Logs |-> [i \in Idx(n) |-> "none"]]
    /\ wline = [n \in Logs |-> [i \in Idx(n) |-> <<>>]]
    /\ wold = [n \in Logs |-> [i \in Idx(n) |-> <<>>]]
    /\ mu = Free
    /\ errors = <<>>
    /\ adds = [n \in Logs |-> 0]
    /\ sent = [n \in Logs |-> <<>>]
    /\ handed = [n \in Logs |-> [i \in Idx(n) |-> <<>>]]
    /\ taken = [n \in Logs |-> [i \in Idx(n) |-> 0]]
    /\ closes = [n \in Logs |-> [i \in Idx(n) |-> 0]]
    /\ mine = [n \in Logs |-> [i \in Idx(n) |-> <<>>]]
    /\ nvisit = [n \in Logs |-> 0]

\* The configurations explored.
Configs ==
    UNION {{c \in [LogNames(n) -> SeqsUpTo(MatcherSpecs, MaxMatchers)] :
               /\ TotalMatchers(c) <= MaxMatchers
               /\ n + TotalMatchers(c) <= MaxLoad
               /\ Canonical(c, n)} : n \in 0..MaxSources}

Init ==
    /\ \E c \in Configs : Start(c)
    /\ order = <<>>
    /\ ApiIdle
    /\ MatchIdle

\* ---------------------------------------------------------------------
\* main
\* ---------------------------------------------------------------------

\* main.go:197-200: make the done channel and start a pipeline per log.
MainStart ==
    /\ proc = "running" /\ mainpc = "start"
    /\ mainpc' = "wait"
    /\ pc' = [n \in Logs |-> "spawn"]
    /\ UNCHANGED <<conf, proc, fault, received, done, fileOpen, file, pending, target,
                   wg>>
    /\ UNCHANGED <<chanVars, workVars, collVars>>
    /\ UNCHANGED <<histVars, apiVars, matchVars>>

\* main.go:203-205: one receive from done.
MainRecv ==
    /\ proc = "running" /\ mainpc = "wait"
    /\ received < Cardinality(Logs)
    /\ done > 0
    /\ done' = done - 1
    /\ received' = received + 1
    /\ UNCHANGED <<conf, proc, fault, mainpc, wg>>
    /\ UNCHANGED <<pipeVars, chanVars, workVars, collVars>>
    /\ UNCHANGED <<histVars, apiVars, matchVars>>

\* main returning after one receive fewer than there are logs.
MainExitEarly ==
    /\ proc = "running" /\ mainpc = "wait"
    /\ received >= Cardinality(Logs) - 1
    /\ proc' = "exited"
    /\ UNCHANGED <<conf, fault, mainVars, done, wg>>
    /\ UNCHANGED <<pipeVars, chanVars, workVars, collVars>>
    /\ UNCHANGED <<histVars, apiVars, matchVars>>

\* main.go:203,206: the loop is over, main returns and the process exits.
MainExit ==
    /\ proc = "running" /\ mainpc = "wait"
    /\ received = Cardinality(Logs)
    /\ proc' = "exited"
    /\ UNCHANGED <<conf, fault, mainVars, done, wg>>
    /\ UNCHANGED <<pipeVars, chanVars, workVars, collVars>>
    /\ UNCHANGED <<histVars, apiVars, matchVars>>

\* ---------------------------------------------------------------------
\* startPipeline
\* ---------------------------------------------------------------------

\* main.go:213-219: make a queue and start a matcher goroutine per matcher.
Spawn(name) ==
    /\ proc = "running" /\ pc[name] = "spawn"
    /\ wg' = [wg EXCEPT ![name] = Len(conf[name])]
    /\ wpc' = [wpc EXCEPT ![name] = [i \in Idx(name) |-> "init"]]
    /\ pc' = [pc EXCEPT ![name] = "open"]
    /\ UNCHANGED <<conf, proc, fault, mainVars, done, fileOpen, file, pending, target,
                   wline, wold>>
    /\ UNCHANGED <<chanVars, collVars>>
    /\ UNCHANGED <<histVars, apiVars, matchVars>>

\* startPipeline logging the failure of os.Open and going on to its report
\* instead of ending the process.
OpenNotFatal(name) ==
    /\ proc = "running" /\ pc[name] = "open"
    /\ \E ok \in BOOLEAN :
         IF ok
         THEN /\ fileOpen' = [fileOpen EXCEPT ![name] = TRUE]
              /\ pc' = [pc EXCEPT ![name] = "scan"]
              /\ UNCHANGED <<proc, fault>>
         ELSE /\ fault' = name
              /\ pc' = [pc EXCEPT ![name] = "send"]
              /\ UNCHANGED <<fileOpen, proc>>
    /\ UNCHANGED <<conf, mainVars, done, file, pending, target, wg>>
    /\ UNCHANGED <<chanVars, workVars, collVars>>
    /\ UNCHANGED <<histVars, apiVars, matchVars>>

\* main.go:222-226: os.Open; log.Fatal ends the process when it fails.
Open(name) ==
    /\ proc = "running" /\ pc[name] = "open"
    /\ \E ok \in BOOLEAN :
         IF ok
         THEN /\ fileOpen' = [fileOpen EXCEPT ![name] = TRUE]
              /\ pc' = [pc EXCEPT ![name] = "scan"]
              /\ UNCHANGED <<proc, fault>>
         ELSE /\ proc' = "fatal"
              /\ fault' = name
              /\ UNCHANGED <<fileOpen, pc>>
    /\ UNCHANGED <<conf, mainVars, done, file, pending, target, wg>>
    /\ UNCHANGED <<chanVars, workVars, collVars>>
    /\ UNCHANGED <<histVars, apiVars, matchVars>>

\* main.go:229: scanner.Scan returns a line; the range loop of line 233 starts.
ScanLine(name) ==
    /\ proc = "running" /\ pc[name] = "scan"
    /\ TotalLines < MaxLines /\ Load < MaxLoad
    /\ \E line \in LineSet : file' = [file EXCEPT ![name] = Append(@, line)]
    /\ pending' = [pending EXCEPT ![name] = Idx(name)]
    /\ pc' = [pc EXCEPT ![name] = IF Idx(name) = {} THEN "scan" ELSE "bcast"]
    /\ UNCHANGED <<conf, proc, fault, mainVars, done, fileOpen, target, wg>>
    /\ UNCHANGED <<chanVars, workVars, collVars>>
    /\ UNCHANGED <<histVars, apiVars, matchVars>>

\* main.go:229,237-239: scanner.Scan returns false at the end of the file
\* (the range loop of line 242 starts), or on a read error, which is fatal.
ScanEnd(name) ==
    /\ proc = "running" /\ pc[name] = "scan"
    /\ \E err \in BOOLEAN :
         IF err
         THEN /\ proc' = "fatal"
              /\ fault' = name
              /\ UNCHANGED <<pending, pc>>
         ELSE /\ pending' = [pending EXCEPT ![name] = Idx(name)]
              /\ pc' = [pc EXCEPT ![name] = IF Idx(name) = {} THEN "wait" ELSE "close"]
              /\ UNCHANGED <<proc, fault>>
    /\ UNCHANGED <<conf, mainVars, done, fileOpen, file, target, wg>>
    /\ UNCHANGED <<chanVars, workVars, collVars>>
    /\ UNCHANGED <<histVars, apiVars, matchVars>>

\* The last line the scanner returned: scanner.Text().
Text(name) == file[name][Len(file[name])]

\* main.go:233,242: the range loop's next iteration is for queue i, the
\* last one when no other queue is left to visit.
Visit(name, i) ==
    /\ nvisit' = [nvisit EXCEPT ![name] = IF pending[name] = {i} THEN 0 ELSE @ + 1]
    /\ order' = IF name \in DOMAIN order /\ Len(order[name]) < Len(conf[name])
                 THEN [order EXCEPT ![name] = Append(@, i)]
                 ELSE order

\* The range loop dropping the line for a queue that is full instead of
\* blocking, as a select with a default case would.
BroadcastSkipFull(name, i) ==
    /\ proc = "running" /\ pc[name] = "bcast"
    /\ target[name] = 0
    /\ i \in pending[name]
    /\ IF Len(queue[name][i]) < QueueCap
       THEN /\ queue' = [queue EXCEPT ![name][i] = Append(@, Text(name))]
            /\ handed' = [handed EXCEPT ![name][i] = Append(@, Text(name))]
       ELSE UNCHANGED <<queue, handed>>
    /\ pending' = [pending EXCEPT ![name] = @ \ {i}]
    /\ pc' = [pc EXCEPT ![name] = IF pending[name] = {i} THEN "scan" ELSE "bcast"]
    /\ Visit(name, i)
    /\ UNCHANGED <<conf, proc, fault, mainVars, done, fileOpen, file, wg, closed, target>>
    /\ UNCHANGED <<workVars, collVars, taken, closes, mine>>
    /\ UNCHANGED <<apiVars, matchVars>>

\* The range loop sending on queues that take any number of lines.
BroadcastNoBackPressure(name, i) ==
    /\ proc = "running" /\ pc[name] = "bcast"
    /\ target[name] = 0
    /\ i \in pending[name]
    /\ queue' = [queue EXCEPT ![name][i] = Append(@, Text(name))]
    /\ handed' = [handed EXCEPT ![name][i] = Append(@, Text(name))]
    /\ pending' = [pending EXCEPT ![name] = @ \ {i}]
    /\ pc' = [pc EXCEPT ![name] = IF pending[name] = {i} THEN "scan" ELSE "bcast"]
    /\ Visit(name, i)
    /\ UNCHANGED <<conf, proc, fault, mainVars, done, fileOpen, file, wg, closed, target>>
    /\ UNCHANGED <<workVars, collVars, taken, closes, mine>>
    /\ UNCHANGED <<apiVars, matchVars>>

\* main.go:233-234: the range loop takes one of the queues it has not
\* visited, in the order Go's map iteration happens to produce, and sends
\* the line: at once when the queue has room, else the pipeline blocks.
Broadcast(name, i) ==
    /\ proc = "running" /\ pc[name] = "bcast"
    /\ target[name] = 0
    /\ i \in pending[name]
    /\ IF Len(queue[name][i]) < QueueCap
       THEN /\ queue' = [queue EXCEPT ![name][i] = Append(@, Text(name))]
            /\ handed' = [handed EXCEPT ![name][i] = Append(@, Text(name))]
            /\ pending' = [pending EXCEPT ![name] = @ \ {i}]
            /\ pc' = [pc EXCEPT ![name] = IF pending[name] = {i} THEN "scan" ELSE "bcast"]
            /\ UNCHANGED target
       ELSE /\ target' = [target EXCEPT ![name] = i]
            /\ UNCHANGED <<queue, handed, pending, pc>>
    /\ Visit(name, i)
    /\ UNCHANGED <<conf, proc, fault, mainVars, done, fileOpen, file, wg, closed>>
    /\ UNCHANGED <<workVars, collVars, taken, closes, mine>>
    /\ UNCHANGED <<apiVars, matchVars>>

\* main.go:234: the blocked send completes once the queue has room.
Unblock(name) ==
    /\ proc = "running" /\ pc[name] = "bcast"
    /\ target[name] # 0
    /\ Len(queue[name][target[name]]) < QueueCap
    /\ queue' = [queue EXCEPT ![name][target[name]] = Append(@, Text(name))]
    /\ handed' = [handed EXCEPT ![name][target[name]] = Append(@, Text(name))]
    /\ pending' = [pending EXCEPT ![name] = @ \ {target[name]}]
    /\ target' = [target EXCEPT ![name] = 0]
    /\ pc' = [pc EXCEPT ![name] =
                 IF pending[name] = {target[name]} THEN "scan" ELSE "bcast"]
    /\ UNCHANGED <<conf, proc, fault, mainVars, done, fileOpen, file, wg, closed>>
    /\ UNCHANGED <<workVars, collVars, taken, closes, mine, nvisit, order>>
    /\ UNCHANGED <<apiVars, matchVars>>

\* main.go:242-244: close one of the queues the range loop has not visited.
Close(name, i) ==
    /\ proc = "running" /\ pc[name] = "close"
    /\ i \in pending[name]
    /\ closed' = [closed EXCEPT ![name][i] = TRUE]
    /\ closes' = [closes EXCEPT ![name][i] = @ + 1]
    /\ pending' = [pending EXCEPT ![name] = @ \ {i}]
    /\ pc' = [pc EXCEPT ![name] = IF pending[name] = {i} THEN "wait" ELSE "close"]
    /\ Visit(name, i)
    /\ UNCHANGED <<conf, proc, fault, mainVars, done, fileOpen, file, target, wg, queue>>
    /\ UNCHANGED <<workVars, collVars, handed, taken, mine>>
    /\ UNCHANGED <<apiVars, matchVars>>

\* startPipeline without the wait for the matchers.
WaitNoBarrier(name) ==
    /\ proc = "running" /\ pc[name] = "wait"
    /\ pc' = [pc EXCEPT ![name] = "send"]
    /\ UNCHANGED <<conf, proc, fault, mainVars, done, fileOpen, file, pending, target, wg>>
    /\ UNCHANGED <<chanVars, workVars, collVars>>
    /\ UNCHANGED <<histVars, apiVars, matchVars>>

\* main.go:247: wg.Wait returns when the counter is zero.
Wait(name) ==
    /\ proc = "running" /\ pc[name] = "wait"
    /\ wg[name] = 0
    /\ pc' = [pc EXCEPT ![name] = "send"]
    /\ UNCHANGED <<conf, proc, fault, mainVars, done, fileOpen, file, pending, target, wg>>
    /\ UNCHANGED <<chanVars, workVars, collVars>>
    /\ UNCHANGED <<histVars, apiVars, matchVars>>

\* main.go:253: done <- struct{}{}; the channel has room for every log.
Signal(name) ==
    /\ proc = "running" /\ pc[name] = "signal"
    /\ done' = done + 1
    /\ pc' = [pc EXCEPT ![name] = "ret"]
    /\ UNCHANGED <<conf, proc, fault, mainVars, fileOpen, file, pending, target, wg>>
    /\ UNCHANGED <<chanVars, workVars, collVars>>
    /\ UNCHANGED <<histVars, apiVars, matchVars>>

\* main.go:226,254: startPipeline returns; the deferred file.Close runs.
Return(name) ==
    /\ proc = "running" /\ pc[name] = "ret"
    /\ fileOpen' = [fileOpen EXCEPT ![name] = FALSE]
    /\ pc' = [pc EXCEPT ![name] = "end"]
    /\ UNCHANGED <<conf, proc, fault, mainVars, done, file, pending, target, wg>>
    /\ UNCHANGED <<chanVars, workVars, collVars>>
    /\ UNCHANGED <<histVars, apiVars, matchVars>>

\* ---------------------------------------------------------------------
\* collector
\* ---------------------------------------------------------------------

\* AddLock without the mutual exclusion of c.mu.Lock.
AddLockNoMutex(name, i) ==
    /\ proc = "running" /\ wpc[name][i] = "add"
    /\ mu' = <<name, i>>
    /\ wold' = [wold EXCEPT ![name][i] = Errors(name)]
    /\ wpc' = [wpc EXCEPT ![name][i] = "locked"]
    /\ UNCHANGED <<conf, proc, fault, mainVars, done, wg, wline, errors, adds, sent>>
    /\ UNCHANGED <<pipeVars, chanVars>>
    /\ UNCHANGED <<histVars, apiVars, matchVars>>

\* main.go:81-84: Add takes c.mu and looks name up in the map.
AddLock(name, i) ==
    /\ proc = "running" /\ wpc[name][i] = "add"
    /\ mu = Free
    /\ mu' = <<name, i>>
    /\ wold' = [wold EXCEPT ![name][i] = Errors(name)]
    /\ wpc' = [wpc EXCEPT ![name][i] = "locked"]
    /\ UNCHANGED <<conf, proc, fault, mainVars, done, wg, wline, errors, adds, sent>>
    /\ UNCHANGED <<pipeVars, chanVars>>
    /\ UNCHANGED <<histVars, apiVars, matchVars>>

\* Add keeping one list for all the logs, under the first name.
AddStoreShared(name, i) ==
    /\ proc = "running" /\ wpc[name][i] = "locked"
    /\ errors' = [k \in DOMAIN errors \cup {Names[1]} |->
                     IF k = Names[1] THEN Append(Errors(Names[1]), wline[name][i])
                     ELSE errors[k]]
    /\ mu' = Free
    /\ adds' = [adds EXCEPT ![name] = @ + 1]
    /\ mine' = [mine EXCEPT ![name][i] = Append(@, wline[name][i])]
    /\ wold' = [wold EXCEPT ![name][i] = <<>>]
    /\ wline' = [wline EXCEPT ![name][i] = <<>>]
    /\ wpc' = [wpc EXCEPT ![name][i] = "loop"]
    /\ UNCHANGED <<conf, proc, fault, mainVars, done, wg, sent>>
    /\ UNCHANGED <<pipeVars, chanVars, handed, taken, closes, nvisit, order>>
    /\ UNCHANGED <<apiVars, matchVars>>

\* Add putting the message in front of the list instead of at its end.
AddStorePrepend(name, i) ==
    /\ proc = "running" /\ wpc[name][i] = "locked"
    /\ errors' = [k \in DOMAIN errors \cup {name} |->
                     IF k = name THEN <<wline[name][i]>> \o wold[name][i]
                     ELSE errors[k]]
    /\ mu' = Free
    /\ adds' = [adds EXCEPT ![name] = @ + 1]
    /\ mine' = [mine EXCEPT ![name][i] = <<wline[name][i]>> \o @]
    /\ wold' = [wold EXCEPT ![name][i] = <<>>]
    /\ wline' = [wline EXCEPT ![name][i] = <<>>]
    /\ wpc' = [wpc EXCEPT ![name][i] = "loop"]
    /\ UNCHANGED <<conf, proc, fault, mainVars, done, wg, sent>>
    /\ UNCHANGED <<pipeVars, chanVars, handed, taken, closes, nvisit, order>>
    /\ UNCHANGED <<apiVars, matchVars>>

\* main.go:84-89: Add stores the list it read with the message appended
\* (an absent key is first given the empty list) and releases c.mu.
AddStore(name, i) ==
    /\ proc = "running" /\ wpc[name][i] = "locked"
    /\ errors' = [k \in DOMAIN errors \cup {name} |->
                     IF k = name THEN Append(wold[name][i], wline[name][i])
                     ELSE errors[k]]
    /\ mu' = Free
    /\ adds' = [adds EXCEPT ![name] = @ + 1]
    /\ mine' = [mine EXCEPT ![name][i] = Append(@, wline[name][i])]
    /\ wold' = [wold EXCEPT ![name][i] = <<>>]
    /\ wline' = [wline EXCEPT ![name][i] = <<>>]
    /\ wpc' = [wpc EXCEPT ![name][i] = "loop"]
    /\ UNCHANGED <<conf, proc, fault, mainVars, done, wg, sent>>
    /\ UNCHANGED <<pipeVars, chanVars, handed, taken, closes, nvisit, order>>
    /\ UNCHANGED <<apiVars, matchVars>>

\* A goroutine is between the map lookup and the map store of Add.
Writing == \E n \in Logs : \E i \in Idx(n) : wpc[n][i] = "locked"

\* Send without the HasErrors test: it reports every log.
SendUnconditional(name) ==
    /\ proc = "running" /\ pc[name] = "send"
    /\ mu = Free
    /\ pc' = [pc EXCEPT ![name] = "deliver"]
    /\ UNCHANGED <<conf, proc, fault, mainVars, done, wg>>
    /\ UNCHANGED <<fileOpen, file, pending, target, chanVars, workVars, collVars>>
    /\ UNCHANGED <<histVars, apiVars, matchVars>>

\* HasErrors giving an absent name an empty list, as a lookup that
\* inserts would.
SendHasErrorsInserts(name) ==
    /\ proc = "running" /\ pc[name] = "send"
    /\ mu = Free
    /\ pc' = [pc EXCEPT ![name] = IF HasErrors(name) THEN "deliver" ELSE "signal"]
    /\ errors' = [k \in DOMAIN errors \cup {name} |-> Errors(k)]
    /\ UNCHANGED <<conf, proc, fault, mainVars, done, wg, mu, adds, sent>>
    /\ UNCHANGED <<fileOpen, file, pending, target, chanVars, workVars>>
    /\ UNCHANGED <<histVars, apiVars, matchVars>>

\* main.go:111,92-99: Send calls HasErrors, which takes c.mu, looks name up
\* and releases c.mu; Send goes on only when the key is there.
SendHasErrors(name) ==
    /\ proc = "running" /\ pc[name] = "send"
    /\ mu = Free
    /\ pc' = [pc EXCEPT ![name] = IF HasErrors(name) THEN "deliver" ELSE "signal"]
    /\ UNCHANGED <<conf, proc, fault, mainVars, done, wg>>
    /\ UNCHANGED <<fileOpen, file, pending, target, chanVars, workVars, collVars>>
    /\ UNCHANGED <<histVars, apiVars, matchVars>>

\* main.go:112-120: Send reads c.errors[name] without c.mu, joins it into
\* the body and hands the message to mg.Send; the call is then waiting for
\* the network, its result open.  A map read while another goroutine is
\* writing the map is a data race: the read goes through, or the Go
\* runtime ends the process ("concurrent map read and map write").
Deliver(name) ==
    /\ proc = "running" /\ pc[name] = "deliver"
    /\ \/ /\ sent' = [sent EXCEPT ![name] =
                         Append(@, [body |-> Join(Errors(name), <<"\n">>), res |-> "open"])]
          /\ pc' = [pc EXCEPT ![name] = "mail"]
          /\ UNCHANGED <<proc, fault>>
       \/ /\ Writing
          /\ proc' = "mapfault"
          /\ fault' = name
          /\ UNCHANGED <<sent, pc>>
    /\ UNCHANGED <<conf, mainVars, done, wg, mu, errors, adds>>
    /\ UNCHANGED <<fileOpen, file, pending, target, chanVars, workVars>>
    /\ UNCHANGED <<histVars, apiVars, matchVars>>

\* main.go:120-122: mg.Send returns, without an error or with one, which is
\* logged; either way Send goes on to its own log line.
MgSend(name) ==
    /\ proc = "running" /\ pc[name] = "mail"
    /\ \E res \in {"ok", "error"} :
         sent' = [sent EXCEPT ![name][Len(sent[name])].res = res]
    /\ pc' = [pc EXCEPT ![name] = "log"]
    /\ UNCHANGED <<conf, proc, fault, mainVars, done, wg, mu, errors, adds>>
    /\ UNCHANGED <<fileOpen, file, pending, target, chanVars, workVars>>
    /\ UNCHANGED <<histVars, apiVars, matchVars>>

\* main.go:123: Send reads c.errors[name] again, without c.mu, for the log.
LogSending(name) ==
    /\ proc = "running" /\ pc[name] = "log"
    /\ \/ /\ pc' = [pc EXCEPT ![name] = "signal"]
          /\ UNCHANGED <<proc, fault>>
       \/ /\ Writing
          /\ proc' = "mapfault"
          /\ fault' = name
          /\ UNCHANGED pc
    /\ UNCHANGED <<conf, mainVars, done, wg>>
    /\ UNCHANGED <<fileOpen, file, pending, target, chanVars, workVars, collVars>>
    /\ UNCHANGED <<histVars, apiVars, matchVars>>

\* ---------------------------------------------------------------------
\* startMatcher
\* ---------------------------------------------------------------------

\* main.go:258-269: the switch on the flavour.  A regexp whose criteria do
\* not compile panics in regexp.MustCompile: the panic unwinds startMatcher,
\* which runs the deferred wg.Done, and the goroutine is left to end the
\* process.  An unknown flavour is logged and the goroutine returns (wg.Done
\* runs).
Construct(name, i) ==
    /\ proc = "running" /\ wpc[name][i] = "init"
    /\ LET m == conf[name][i] IN
         IF m[1] = "regexp" /\ ~Compiles(m[2])
         THEN /\ wpc' = [wpc EXCEPT ![name][i] = "panicking"]
              /\ wg' = [wg EXCEPT ![name] = @ - 1]
         ELSE IF Known(m[1])
         THEN /\ wpc' = [wpc EXCEPT ![name][i] = "loop"]
              /\ UNCHANGED wg
         ELSE /\ wpc' = [wpc EXCEPT ![name][i] = "done"]
              /\ wg' = [wg EXCEPT ![name] = @ - 1]
    /\ UNCHANGED <<conf, proc, fault, mainVars, done, wline, wold>>
    /\ UNCHANGED <<pipeVars, chanVars, collVars>>
    /\ UNCHANGED <<histVars, apiVars, matchVars>>

\* main.go:140: the panic of regexp.MustCompile has no deferred call left
\* to run and is not recovered: the Go runtime prints it and ends the
\* process.
PanicExit(name, i) ==
    /\ proc = "running" /\ wpc[name][i] = "panicking"
    /\ proc' = "panic"
    /\ fault' = name
    /\ UNCHANGED <<conf, mainVars, done, wg>>
    /\ UNCHANGED <<pipeVars, chanVars, workVars, collVars>>
    /\ UNCHANGED <<histVars, apiVars, matchVars>>

\* main.go:271-275: the range loop receives a line and applies the matcher;
\* on a match the goroutine calls collector.Add.
Receive(name, i) ==
    /\ proc = "running" /\ wpc[name][i] = "loop"
    /\ queue[name][i] # <<>>
    /\ queue' = [queue EXCEPT ![name][i] = Tail(@)]
    /\ taken' = [taken EXCEPT ![name][i] = @ + 1]
    /\ IF Match(conf[name][i], Head(queue[name][i]))
       THEN /\ wpc' = [wpc EXCEPT ![name][i] = "add"]
            /\ wline' = [wline EXCEPT ![name][i] = Head(queue[name][i])]
       ELSE UNCHANGED <<wpc, wline>>
    /\ UNCHANGED <<conf, proc, fault, mainVars, done, wg, wold, closed>>
    /\ UNCHANGED <<pipeVars, collVars, handed, closes, mine, nvisit, order>>
    /\ UNCHANGED <<apiVars, matchVars>>

\* main.go:271,258: the queue is closed and empty; the range loop ends,
\* the goroutine returns and the deferred wg.Done runs.
Finish(name, i) ==
    /\ proc = "running" /\ wpc[name][i] = "loop"
    /\ queue[name][i] = <<>>
    /\ closed[name][i]
    /\ wpc' = [wpc EXCEPT ![name][i] = "done"]
    /\ wg' = [wg EXCEPT ![name] = @ - 1]
    /\ UNCHANGED <<conf, proc, fault, mainVars, done, wline, wold>>
    /\ UNCHANGED <<pipeVars, chanVars, collVars>>
    /\ UNCHANGED <<histVars, apiVars, matchVars>>

\* ---------------------------------------------------------------------
\* The program
\* ---------------------------------------------------------------------

\* A step of one of the goroutines.
Step ==
    \/ MainStart
    \/ MainRecv
    \/ MainExit
    \/ \E name \in Logs : Spawn(name)
    \/ \E name \in Logs : Open(name)
    \/ \E name \in Logs : ScanLine(name)
    \/ \E name \in Logs : ScanEnd(name)
    \/ \E name \in Logs : \E i \in Idx(name) : Broadcast(name, i)
    \/ \E name \in Logs : Unblock(name)
    \/ \E name \in Logs : \E i \in Idx(name) : Close(name, i)
    \/ \E name \in Logs : Wait(name)
    \/ \E name \in Logs : SendHasErrors(name)
    \/ \E name \in Logs : Deliver(name)
    \/ \E name \in Logs : MgSend(name)
    \/ \E name \in Logs : LogSending(name)
    \/ \E name \in Logs : Signal(name)
    \/ \E name \in Logs : Return(name)
    \/ \E name \in Logs : \E i \in Idx(name) : Construct(name, i)
    \/ \E name \in Logs : \E i \in Idx(name) : PanicExit(name, i)
    \/ \E name \in Logs : \E i \in Idx(name) : Receive(name, i)
    \/ \E name \in Logs : \E i \in Idx(name) : Finish(name, i)
    \/ \E name \in Logs : \E i \in Idx(name) : AddLock(name, i)
    \/ \E name \in Logs : \E i \in Idx(name) : AddStore(name, i)

\* The Go runtime: when main has not returned and no goroutine can run,
\* the process ends with "all goroutines are asleep - deadlock!".
Asleep ==
    /\ proc = "running"
    /\ ~ENABLED Step
    /\ proc' = "deadlock"
    /\ UNCHANGED <<conf, fault, mainVars, done, wg>>
    /\ UNCHANGED <<pipeVars, chanVars, workVars, collVars>>
    /\ UNCHANGED <<histVars, apiVars, matchVars>>

Next == Step \/ Asleep

Spec == Init /\ [][Next]_vars

\* The program with the order of the range loops of every log recorded.
OrderInit ==
    /\ \E c \in Configs : Start(c)
    /\ order = [n \in Logs |-> <<>>]
    /\ ApiIdle
    /\ MatchIdle

OrderSpec == OrderInit /\ [][Next]_vars

\* ---------------------------------------------------------------------
\* A call of substringMatcher.Match on its own
\* ---------------------------------------------------------------------

\* Length of the criteria and texts tried.
MaxStrLen == 3

\* The characters of the criteria and texts tried.
Alphabet == {"e", "x"}

Strings == SeqsUpTo(Alphabet, MaxStrLen)

\* main.go:154-166: a substring matcher built from criteria, and a text.
MatchInit ==
    /\ Start(<<>>)
    /\ order = <<>>
    /\ ApiIdle
    /\ mcrit \in Strings
    /\ mtext \in Strings
    /\ mres = <<>>

\* main.go:164-166: the matcher is called through the interface.
CallMatch ==
    /\ mres = <<>>
    /\ mres' = <<Match(<<"substring", mcrit>>, mtext)>>
    /\ UNCHANGED <<mcrit, mtext, apiVars, histVars>>
    /\ UNCHANGED <<conf, proc, fault, mainVars, done, wg>>
    /\ UNCHANGED <<pipeVars, chanVars, workVars, collVars>>

MatchNext == CallMatch

MatchSpec == MatchInit /\ [][MatchNext]_vars

\* ---------------------------------------------------------------------
\* A caller of the collector's exported methods
\* ---------------------------------------------------------------------

\* Calls of Add made in a run.
MaxAdds == 4

\* The names the caller uses.
ApiNames == {Names[k] : k \in 1..Len(Names)}

\* The slice read from the map for name; a missing key reads as nil.
Hdr(name) == IF name \in DOMAIN hdr THEN hdr[name] ELSE [arr |-> 0, len |-> 0]

\* cap(s) of a slice over array a; the empty literal and nil have none.
Cap(a) == IF a = 0 THEN 0 ELSE Len(heap[a])

\* The elements of a slice: the first len elements of its array.
View(s) == IF s.arr = 0 THEN <<>> ELSE SubSeq(heap[s.arr], 1, s.len)

\* The capacity append grows a full slice of strings to, one element at a
\* time (runtime growslice, for the small capacities here).
GrowCap(cap) == IF cap = 0 THEN 1 ELSE 2 * cap

\* The zero value of string.
Zero == <<>>

ApiInit ==
    /\ Start(<<>>)
    /\ order = <<>>
    /\ MatchIdle
    /\ heap = <<>>
    /\ hdr = <<>>
    /\ ret = <<>>
    /\ added = [n \in ApiNames |-> <<>>]

TotalAdded == Cardinality({<<n, k>> \in ApiNames \X (1..MaxAdds) : k <= Len(added[n])})

\* main.go:80-89: Add(name, message), under c.mu.  append writes the
\* message after the last element when the array has room, else it copies
\* the elements to a new, larger array first.
ApiAdd(name, message) ==
    /\ TotalAdded < MaxAdds
    /\ LET s == Hdr(name) IN
         IF s.len < Cap(s.arr)
         THEN /\ heap' = [heap EXCEPT ![s.arr][s.len + 1] = message]
              /\ hdr' = [k \in DOMAIN hdr \cup {name} |->
                            IF k = name THEN [arr |-> s.arr, len |-> s.len + 1]
                            ELSE hdr[k]]
         ELSE /\ heap' = Append(heap,
                            [k \in 1..GrowCap(Cap(s.arr)) |->
                                IF k <= s.len THEN heap[s.arr][k]
                                ELSE IF k = s.len + 1 THEN message
                                ELSE Zero])
              /\ hdr' = [k \in DOMAIN hdr \cup {name} |->
                            IF k = name THEN [arr |-> Len(heap) + 1, len |-> s.len + 1]
                            ELSE hdr[k]]
    /\ added' = [added EXCEPT ![name] = Append(@, message)]
    /\ UNCHANGED <<ret, matchVars, histVars>>
    /\ UNCHANGED <<conf, proc, fault, mainVars, done, wg>>
    /\ UNCHANGED <<pipeVars, chanVars, workVars, collVars>>

\* main.go:102-107: Errors(name), under c.mu, returns the slice that is in
\* the map: the same array, not a copy of its elements.
ApiErrors(name) ==
    /\ ret' = [name |-> name, arr |-> Hdr(name).arr, len |-> Hdr(name).len]
    /\ UNCHANGED <<heap, hdr, added, matchVars, histVars>>
    /\ UNCHANGED <<conf, proc, fault, mainVars, done, wg>>
    /\ UNCHANGED <<pipeVars, chanVars, workVars, collVars>>

\* The caller assigns to element k of the slice it was returned.
CallerWrite(k, v) ==
    /\ ret # <<>>
    /\ k \in 1..ret.len
    /\ heap' = [heap EXCEPT ![ret.arr][k] = v]
    /\ UNCHANGED <<hdr, ret, added, matchVars, histVars>>
    /\ UNCHANGED <<conf, proc, fault, mainVars, done, wg>>
    /\ UNCHANGED <<pipeVars, chanVars, workVars, collVars>>

ApiNext ==
    \/ \E name \in ApiNames : \E message \in LineSet : ApiAdd(name, message)
    \/ \E name \in ApiNames : ApiErrors(name)
    \/ \E k \in 1..MaxAdds : \E v \in LineSet : CallerWrite(k, v)

ApiSpec == ApiInit /\ [][ApiNext]_vars

\* ---------------------------------------------------------------------
\* Properties
\* ---------------------------------------------------------------------

\* Number of positions of list that hold v.
Count(list, v) == Cardinality({k \in 1..Len(list) : list[k] = v})

\* The (matcher, line) pairs of log name, among the lines read so far, whose
\* line is v and for which the matcher built by startMatcher returns true.
Matched(name, v) ==
    {<<i, k>> \in Idx(name) \X (1..Len(file[name])) :
        /\ file[name][k] = v
        /\ Known(conf[name][i][1])
        /\ Match(conf[name][i], v)}

\* Matcher goroutine i of log name has left startMatcher, by a return or
\* by a panic: its deferred wg.Done has run.
Returned(name, i) == wpc[name][i] \in {"done", "panicking"}

\* Every matcher goroutine of log name has returned.
AllDone(name) ==
    /\ pc[name] \notin {"idle", "spawn"}
    /\ \A i \in Idx(name) : Returned(name, i)

\* C1: no lost updates.  Once all matcher goroutines of a log have
\* returned, each line value is recorded under the log's name as many
\* times as there are (matcher, line) pairs of that log with that value for
\* which Match returned true; a line matched by k matchers is recorded k
\* times.
C1_NoLostUpdates ==
    \A name \in Logs :
        AllDone(name) =>
            \A v \in LineSet : Count(Errors(name), v) = Cardinality(Matched(name, v))

\* Two matchers of one log have both recorded the only line of its file.
C1_Witness ==
    \E name \in Logs :
        /\ AllDone(name)
        /\ Len(file[name]) = 1
        /\ Count(Errors(name), file[name][1]) = 2
\* collector.Send(name) has returned, or was cut short by a fault of the
\* runtime raised inside it.
SendOver(name) ==
    \/ pc[name] \in {"signal", "ret", "end"}
    \/ proc = "mapfault" /\ fault = name

\* Number of lines of a message body.
LineCount(body) == 1 + Cardinality({k \in 1..Len(body) : body[k] = "\n"})

\* C2: for every log with at least one recorded match, Send(name) hands
\* the notifier exactly one message, whose body is the lines recorded for
\* the name joined in collector order with newlines, as many lines as Add
\* was called for the name.
C2_OneAggregateMessage ==
    \A name \in Logs :
        (SendOver(name) /\ HasErrors(name)) =>
            /\ Len(sent[name]) = 1
            /\ sent[name][1].body = Join(errors[name], <<"\n">>)
            /\ LineCount(sent[name][1].body) = adds[name]

\* No matcher of log name matches any of the lines read from its file.
NoMatch(name) == \A v \in LineSet : Matched(name, v) = {}

\* C3: a log none of whose lines is matched by any of its matchers is
\* never a key of the collector, HasErrors(name) is false for it, and its
\* Send goes past the HasErrors test to no delivery.
C3_NoMatchNoReport ==
    \A name \in Logs :
        NoMatch(name) =>
            /\ name \notin DOMAIN errors
            /\ ~HasErrors(name)
            /\ pc[name] \notin {"deliver", "mail", "log"}
            /\ sent[name] = <<>>

\* The pipeline of a log with a matcher and a line, none matching, is over.
C3_Witness ==
    \E name \in Logs :
        /\ NoMatch(name)
        /\ pc[name] = "end"
        /\ file[name] # <<>>
        /\ \E i \in Idx(name) : Known(conf[name][i][1])

\* The pipeline of log name is blocked sending to the queue of a matcher
\* goroutine that has returned.
Stalled(name) == target[name] # 0 /\ Returned(name, target[name])

\* C4: a matcher of unknown flavour next to valid matchers neither stalls
\* the pipeline of its log nor crashes the run.
C4_UnknownFlavourHarmless ==
    \A name \in Logs :
        (/\ \E i \in Idx(name) : ~Known(conf[name][i][1])
         /\ \E i \in Idx(name) : Known(conf[name][i][1]) /\ Compiles(conf[name][i][2])) =>
            ~Stalled(name) /\ proc # "deadlock"

\* C5: no pipeline or matcher blocks for ever: as long as the process
\* runs, one of its goroutines can take a step.
C5_SomeGoroutineCanRun == proc = "running" => ENABLED Step

\* collector.Send(name) has been called.
SendCalled(name) ==
    pc[name] \in {"send", "deliver", "mail", "log", "signal", "ret", "end"}

\* C6: Send(name) is called only after every matcher goroutine of the log
\* has reported completion: from then on none of them is in Add, and the
\* collector holds every match of the log.
C6_SendAfterMatchers ==
    \A name \in Logs :
        SendCalled(name) =>
            /\ wg[name] = 0
            /\ \A i \in Idx(name) : Returned(name, i)
            /\ \A v \in LineSet : Count(Errors(name), v) = Cardinality(Matched(name, v))

\* Send has been called for a log with two matchers and a recorded match.
C6_Witness ==
    \E name \in Logs :
        SendCalled(name) /\ Len(conf[name]) = 2 /\ adds[name] > 0

\* C7: when main returns, every log's pipeline has signalled: it has read
\* its file to the end, its matchers are done and its Send has returned.
C7_ExitAfterAllPipelines ==
    proc = "exited" =>
        \A name \in Logs :
            /\ pc[name] \in {"ret", "end"}
            /\ \A i \in Idx(name) : closed[name][i] /\ Returned(name, i)

\* main has returned after two pipelines, one of which sent a report.
C7_Witness ==
    /\ proc = "exited"
    /\ Cardinality(Logs) = 2
    /\ \E name \in Logs : sent[name] # <<>>

\* C8: no operation of the collector reads the map while another
\* goroutine is in the middle of changing it.
C8_MapAccessUnderLock ==
    /\ proc # "mapfault"
    /\ \A name \in Logs : pc[name] \in {"deliver", "log"} => ~Writing
\* Opening or reading the file of log name has failed.
IOFailed(name) == fault = name /\ proc \notin {"panic", "mapfault"}

\* C9: when opening or reading a log's file fails the process is ended
\* with a failure: main has not returned and never does, the failing
\* pipeline never calls Send, and no goroutine takes a step afterwards.
C9_FatalIOError ==
    /\ [](\A name \in Logs :
             IOFailed(name) =>
                 /\ proc = "fatal"
                 /\ pc[name] \in {"open", "scan"}
                 /\ sent[name] = <<>>)
    /\ [][(\E name \in Logs : IOFailed(name)) => vars' = vars]_vars

\* A read error ended the process while another log, with a match recorded,
\* had its report still to send.
C9_Witness ==
    /\ proc = "fatal"
    /\ pc[fault] = "scan"
    /\ \E name \in Logs \ {fault} : HasErrors(name) /\ ~SendCalled(name)

\* C10: a name is a key of the collector exactly when Add has been
\* performed for it, and no key maps to an empty list; HasErrors and Send
\* create no key.
C10_KeyIffAdded ==
    /\ DOMAIN errors \subseteq Logs
    /\ \A name \in Logs :
         /\ name \in DOMAIN errors <=> adds[name] > 0
         /\ name \in DOMAIN errors => Len(errors[name]) > 0

\* One log is a key and another, whose Send has run, is not.
C10_Witness ==
    \E name \in Logs : \E other \in Logs :
        /\ name \in DOMAIN errors
        /\ other \notin DOMAIN errors
        /\ pc[other] = "end"

\* The lines of a list that the matcher built from spec m matches, in order.
RECURSIVE Select(_, _)
Select(m, lines) ==
    IF lines = <<>> THEN <<>>
    ELSE (IF Match(m, Head(lines)) THEN <<Head(lines)>> ELSE <<>>) \o Select(m, Tail(lines))

\* a occurs in b as a subsequence: its entries, in order, among b's.
RECURSIVE IsSubseq(_, _)
IsSubseq(a, b) ==
    IF a = <<>> THEN TRUE
    ELSE IF b = <<>> THEN FALSE
    ELSE IF Head(a) = Head(b) THEN IsSubseq(Tail(a), Tail(b))
    ELSE IsSubseq(a, Tail(b))

\* The lines matcher i of log name has received and is done with.
Processed(name, i) ==
    SubSeq(file[name], 1,
           taken[name][i] - (IF wpc[name][i] \in {"add", "locked"} THEN 1 ELSE 0))

\* C11: matching preserves the order of the file per matcher.  The lines a
\* matcher has recorded are the lines it matched among those it received,
\* in file order, and they stand in that order in the collector's list of
\* the log.  The list of a log with a single matcher is the matching lines
\* of the file in file order: a prefix of them while the matcher runs, all
\* of them once it has returned.
C11_OrderPreserved ==
    \A name \in Logs :
        /\ \A i \in Idx(name) :
             /\ mine[name][i] = Select(conf[name][i], Processed(name, i))
             /\ IsSubseq(mine[name][i], Errors(name))
        /\ Len(conf[name]) = 1 =>
             LET all == Select(conf[name][1], file[name]) IN
               /\ Len(Errors(name)) <= Len(all)
               /\ Errors(name) = SubSeq(all, 1, Len(Errors(name)))
               /\ AllDone(name) => Errors(name) = all

\* The only matcher of a log has returned after recording two lines that
\* differ.
C11_Witness ==
    \E name \in Logs :
        /\ Len(conf[name]) = 1
        /\ AllDone(name)
        /\ Len(Errors(name)) = 2
        /\ Errors(name)[1] # Errors(name)[2]

\* A matcher of some log is a regexp whose criteria do not compile.
Malformed == \E name \in Logs : \E i \in Idx(name) :
                 conf[name][i][1] = "regexp" /\ ~Compiles(conf[name][i][2])

\* C12: with a malformed regexp in the configuration the process starts no
\* work: no line of any log is handed to any matcher goroutine and no
\* notification is delivered for any log.
C12_NoWorkWithBadPattern ==
    Malformed =>
        \A name \in Logs :
            /\ \A i \in Idx(name) : handed[name][i] = <<>>
            /\ sent[name] = <<>>

\* C13: a substring matcher with criteria c returns true for a line l
\* exactly when c occurs in l as a contiguous substring (the line contains
\* the configured substring).
C13_LineContainsCriteria ==
    mres # <<>> => (mres[1] <=> Contains(mtext, mcrit))

\* C14: Errors(name) returns the list recorded for name (empty when the
\* name is absent) as a copy of its own: the collector's lists are what
\* Add made them whatever the caller does to a slice it was returned, and
\* a call of Add changes no slice returned before.
C14_ErrorsIsolated ==
    /\ [](\A name \in ApiNames : View(Hdr(name)) = added[name])
    /\ [][(ret' # ret) => (View(ret))' = added[ret'.name]]_vars
    /\ [][(hdr' # hdr /\ ret # <<>>) => (View(ret))' = View(ret)]_vars

\* startPipeline(name) is past its scanner loop.
PastScan(name) ==
    pc[name] \in {"close", "wait", "send", "deliver", "mail", "log", "signal", "ret",
                  "end"}

\* C15: the lines sent on the queue of a matcher are the lines of the
\* file in file order, each once and none skipped: at any moment the lines
\* read so far, but for the one being broadcast.  A queue is closed once,
\* by the pipeline in its closing loop, when every line of the file has
\* been sent on it; nothing is sent on a closed queue, and no step of a
\* matcher goroutine closes a queue.
C15_QueueCarriesFile ==
    /\ [](\A name \in Logs : \A i \in Idx(name) :
             /\ Len(handed[name][i]) <= Len(file[name])
             /\ Len(handed[name][i]) >= Len(file[name]) - 1
             /\ handed[name][i] = SubSeq(file[name], 1, Len(handed[name][i]))
             /\ closes[name][i] = (IF closed[name][i] THEN 1 ELSE 0)
             /\ closed[name][i] => PastScan(name) /\ handed[name][i] = file[name])
    /\ [][\A name \in Logs : \A i \in Idx(name) :
             /\ handed'[name][i] # handed[name][i] => ~closed[name][i]
             /\ closed'[name][i] # closed[name][i] =>
                   pc[name] = "close" /\ wpc' = wpc]_vars

\* Both queues of a log whose file has two lines that differ are closed,
\* each having carried the two lines.
C15_Witness ==
    \E name \in Logs :
        /\ Len(conf[name]) = 2
        /\ Len(file[name]) = 2 /\ file[name][1] # file[name][2]
        /\ \A i \in Idx(name) : closed[name][i] /\ handed[name][i] = file[name]

\* C16: back-pressure.  A queue never holds more than one line, the lines
\* sent to a matcher are at most one ahead of the lines it has received,
\* and the pipeline reads the next line of the file only when the current
\* one has been sent on every queue.
C16_BackPressure ==
    \A name \in Logs :
        /\ \A i \in Idx(name) :
             /\ Len(queue[name][i]) <= 1
             /\ Len(handed[name][i]) - taken[name][i] = Len(queue[name][i])
             /\ Len(handed[name][i]) - taken[name][i] <= 1
        /\ pc[name] = "scan" => \A i \in Idx(name) : handed[name][i] = file[name]

\* The pipeline is blocked with the second line of its file: the queue it
\* is sending to still holds the first.
C16_Witness ==
    \E name \in Logs :
        /\ target[name] # 0
        /\ Len(file[name]) = 2
        /\ queue[name][target[name]] = <<file[name][1]>>
        /\ taken[name][target[name]] = 0

\* The delivery of the report of log name was tried and failed.
DeliveryFailed(name) == sent[name] # <<>> /\ sent[name][1].res = "error"

\* C17: a delivery that fails is not fatal and stays local.  It is tried
\* once and not again, the lines recorded for the log are as they were,
\* and Send returns, so that the pipeline goes on to signal completion.
C17_DeliveryFailureLocal ==
    \A name \in Logs :
        /\ Len(sent[name]) <= 1
        /\ DeliveryFailed(name) =>
             /\ sent[name][1].body = Join(Errors(name), <<"\n">>)
             /\ pc[name] \in {"log", "signal", "ret", "end"}
             /\ SendOver(name) => pc[name] \in {"signal", "ret", "end"}

\* C18: the file of a log is closed before its pipeline signals
\* completion, on every way out: once the signal is sent, and once the
\* process has ended, the file is not open.
C18_FileClosedBeforeSignal ==
    \A name \in Logs :
        (pc[name] \in {"ret", "end"} \/ proc # "running") => ~fileOpen[name]

\* A step of startPipeline(name) starts the iteration of a range loop for
\* queue i.
Iterates(name, i) ==
    /\ pc[name] \in {"bcast", "close"}
    /\ target[name] = 0
    /\ i \in pending[name]
    /\ target'[name] = i \/ i \notin pending'[name]

\* C19: the pipeline of a log visits the queues in one order: every range
\* loop over them, for a line or for the closing, takes them in the order
\* the first loop did.
C19_FixedIterationOrder ==
    [][\A name \in DOMAIN order : \A i \in Idx(name) :
          (Iterates(name, i) /\ Len(order[name]) = Len(conf[name])) =>
              order[name][nvisit[name] + 1] = i]_vars

\* C20: source isolation.  Every entry of the list recorded under a log's
\* name is a line of that log's file matched by one of that log's
\* matchers, at most one message is delivered for a log, and its body is
\* that list.
C20_SourceIsolation ==
    \A name \in Logs :
        /\ \A j \in 1..Len(Errors(name)) :
             \E i \in Idx(name) : \E k \in 1..Len(file[name]) :
                 /\ file[name][k] = Errors(name)[j]
                 /\ Known(conf[name][i][1])
                 /\ Match(conf[name][i], file[name][k])
        /\ Len(sent[name]) <= 1
        /\ \A j \in 1..Len(sent[name]) :
             sent[name][j].body = Join(Errors(name), <<"\n">>)

\* Two logs whose files differ have each had a report delivered.
C20_Witness ==
    \E name \in Logs : \E other \in Logs :
        /\ file[name] # file[other]
        /\ sent[name] # <<>> /\ sent[other] # <<>>
        /\ sent[name][1].body # sent[other][1].body
====
